---- MODULE Spec2Model ----
(***************************************************************************)
(* 3D multi-state cellular automaton on a toroidal lattice                 *)
(* (src/src/grid.rs, src/src/rule.rs).                                     *)
(*                                                                         *)
(* IVec3 is a triple <<x, y, z>>.  A Vec<T> is a function on 0..len-1.     *)
(* u8/u32 values are naturals; arithmetic that Rust does in a fixed width  *)
(* is reduced modulo that width.  Time is counted in ticks of 25 ms.       *)
(***************************************************************************)
EXTENDS Integers, Sequences, FiniteSets, TLC

VARIABLES
    size,          \* Grid.size
    cells,         \* Grid.cells: index -> [value, neighbors]
    rule,          \* the Rule resource
    pc,            \* where the host is: "new" (the grid is built), "seed" (in
                   \* spawn_center_cluster), "seeded", "run" (in the frame loop),
                   \* "panic" (the process has panicked)
    radius,        \* spawn_center_cluster: radius (0 once the frame loop runs)
    amount,        \* spawn_center_cluster: amount (0 once the frame loop runs)
    remaining,     \* spawn_center_cluster: iterations of 0..amount left
    since_update,  \* time.elapsed_secs() - *last_update, in ticks
    instances,     \* InstanceMaterialData.0 of the single instanced entity
    stepped,       \* whether simulate_step has printed a performance profile
    rv,            \* a RuleValue under construction: [src, bitmask]
    call           \* the last call of a pure function: [op, arg, ret]

vars == <<size, cells, rule, pc, radius, amount, remaining, since_update, instances, stepped, rv, call>>

----------------------------------------------------------------------------
(* Bounds of the model *)

\* lattice edge lengths 1..MaxSize of the general specification
MaxSize == 2
\* spawn_center_cluster: amount in 0..MaxAmount
MaxAmount == 2
\* spawn_center_cluster: radius in 0..MaxRadius
MaxRadius == 1
\* lattice edge lengths 1..MaxScenarioSize of the single-cell scenarios
MaxScenarioSize == 5
\* u8 arguments 0..MaxCount (plus the values around 26 and 255)
MaxCount == 6
\* RuleValue::new: slices of at most MaxLen counts
MaxLen == 2
\* wrap: coordinates in -MaxCoord..MaxCoord
MaxCoord == 7
\* Grid::new: sizes in -MaxNegSize..MaxSize
MaxNegSize == 2

----------------------------------------------------------------------------
(* Fixed-width integer helpers *)

\* Rust's % on i32: the remainder has the sign of the dividend
RemT(a, b) == IF a >= 0 THEN a % b ELSE -((-a) % b)

RECURSIVE BitOr(_, _)
\* u32 | u32
BitOr(a, b) ==
    IF a = 0 THEN b
    ELSE IF b = 0 THEN a
    ELSE (IF a % 2 = 1 \/ b % 2 = 1 THEN 1 ELSE 0) + 2 * BitOr(a \div 2, b \div 2)

RECURSIVE BitAnd(_, _)
\* u32 & u32
BitAnd(a, b) ==
    IF a = 0 \/ b = 0 THEN 0
    ELSE (IF a % 2 = 1 /\ b % 2 = 1 THEN 1 ELSE 0) + 2 * BitAnd(a \div 2, b \div 2)

\* 1u32 << count, for count < 32
Shl1(count) == 2 ^ count

\* u8 += 1 and u8 -= 1 (two's complement wrap)
U8Inc(n) == IF n = 255 THEN 0 ELSE n + 1
U8Dec(n) == IF n = 0 THEN 255 ELSE n - 1

\* u8::min
MinU8(a, b) == IF a <= b THEN a ELSE b

----------------------------------------------------------------------------
(* rule.rs: NeighborMethod *)

\* a von Neumann table that lists +z twice and never -z
VonNeumannNeighborsOneSided ==
    << << 1, 0, 0>>, <<-1, 0, 0>>, <<0,  1, 0>>,
       <<0, -1, 0>>, <<0, 0,  1>>, <<0, 0,  1>> >>

VON_NEUMANN_NEIGHBORS ==
    << << 1, 0, 0>>, <<-1, 0, 0>>, <<0,  1, 0>>,
       <<0, -1, 0>>, <<0, 0,  1>>, <<0, 0, -1>> >>

MOORE_NEIGHBORS ==
    << <<-1, -1, -1>>, <<0, -1, -1>>, <<1, -1, -1>>,
       <<-1,  0, -1>>, <<0,  0, -1>>, <<1,  0, -1>>,
       <<-1,  1, -1>>, <<0,  1, -1>>, <<1,  1, -1>>,
       <<-1, -1,  0>>, <<0, -1,  0>>, <<1, -1,  0>>,
       <<-1,  0,  0>>,                <<1,  0,  0>>,
       <<-1,  1,  0>>, <<0,  1,  0>>, <<1,  1,  0>>,
       <<-1, -1,  1>>, <<0, -1,  1>>, <<1, -1,  1>>,
       <<-1,  0,  1>>, <<0,  0,  1>>, <<1,  0,  1>>,
       <<-1,  1,  1>>, <<0,  1,  1>>, <<1,  1,  1>> >>

get_neighbors(method) ==
    IF method = "Moore" THEN MOORE_NEIGHBORS ELSE VON_NEUMANN_NEIGHBORS

max_neighbors(method) ==
    IF method = "Moore" THEN 26 ELSE 6

----------------------------------------------------------------------------
(* rule.rs: RuleValue *)

RECURSIVE RuleValueNewFrom(_, _, _)
\* the loop of RuleValue::new over counts[k..], bitmask so far
RuleValueNewFrom(counts, k, bitmask) ==
    IF k > Len(counts) THEN bitmask
    ELSE RuleValueNewFrom(counts, k + 1,
            IF counts[k] < 27 THEN BitOr(bitmask, Shl1(counts[k])) ELSE bitmask)

\* a RuleValue::new that keeps only the last count
RuleValueNewLast(counts) ==
    IF Len(counts) = 0 THEN 0 ELSE RuleValueNewFrom(counts, Len(counts), 0)

\* RuleValue::new(counts).bitmask
RuleValueNew(counts) == RuleValueNewFrom(counts, 1, 0)

RECURSIVE FromRangeLoop(_, _, _)
\* the loop of RuleValue::from_range: for count in lo..=hi
FromRangeLoop(lo, hi, bitmask) ==
    IF lo > hi THEN bitmask
    ELSE FromRangeLoop(lo + 1, hi, BitOr(bitmask, Shl1(lo)))

\* a from_range over min..max.min(26), the upper end excluded
from_range_exclusive(min, max) == FromRangeLoop(min, MinU8(max, 26) - 1, 0)

\* RuleValue::from_range(min, max).bitmask
from_range(min, max) == FromRangeLoop(min, MinU8(max, 26), 0)

\* RuleValue::or
or(self, other) == BitOr(self, other)

\* RuleValue::matches
matches(bitmask, count) ==
    IF count >= 27 THEN FALSE
    ELSE BitAnd(bitmask, Shl1(count)) # 0

----------------------------------------------------------------------------
(* rule.rs: Rule *)

\* Rule::new
RuleNew(survival, birth, states, method) ==
    [survival |-> RuleValueNew(survival), birth |-> RuleValueNew(birth),
     states |-> states, neighbor_method |-> method]

\* Rule::from_ranges
RuleFromRanges(smin, smax, bmin, bmax, states, method) ==
    [survival |-> from_range(smin, smax), birth |-> from_range(bmin, bmax),
     states |-> states, neighbor_method |-> method]

rule_445 ==
    [survival |-> RuleValueNew(<<4>>), birth |-> RuleValueNew(<<4>>),
     states |-> 5, neighbor_method |-> "Moore"]

clouds_1 ==
    [survival |-> from_range(13, 26),
     birth |-> or(from_range(13, 14), from_range(17, 19)),
     states |-> 2, neighbor_method |-> "Moore"]

builder_2 ==
    [survival |-> from_range(5, 7), birth |-> RuleValueNew(<<1>>),
     states |-> 2, neighbor_method |-> "Moore"]

crystal_growth_1 ==
    [survival |-> from_range(0, 6), birth |-> RuleValueNew(<<1, 3>>),
     states |-> 2, neighbor_method |-> "Moore"]

should_survive(r, neighbors) == matches(r.survival, neighbors)

\* a should_birth that answers the opposite
should_birth_inverted(r, neighbors) == ~matches(r.birth, neighbors)

should_birth(r, neighbors) == matches(r.birth, neighbors)

----------------------------------------------------------------------------
(* grid.rs: Grid *)

\* simulate_step: UPDATE_INTERVAL = 0.05 s, in ticks of 25 ms
UPDATE_INTERVAL == 2

\* Cell::is_dead
is_dead(cell) == cell.value = 0

\* Grid::new(size).cells
GridNew(s) == [i \in 0 .. (s * s * s - 1) |-> [value |-> 0, neighbors |-> 0]]

\* Grid::pos_to_index
pos_to_index(s, pos) == pos[1] + pos[2] * s + pos[3] * s * s

\* an index_to_pos that reads the axes in the order y, x, z
index_to_pos_yxz(s, index) ==
    << RemT(index \div s, s), RemT(index, s), (index \div s) \div s >>

\* Grid::index_to_pos
index_to_pos(s, index) ==
    << RemT(index, s), RemT(index \div s, s), (index \div s) \div s >>

\* a wrap that takes the remainder only
wrap_remainder(s, pos) ==
    << RemT(pos[1], s), RemT(pos[2], s), RemT(pos[3], s) >>

\* Grid::wrap
wrap(s, pos) ==
    << RemT(RemT(pos[1], s) + s, s),
       RemT(RemT(pos[2], s) + s, s),
       RemT(RemT(pos[3], s) + s, s) >>

\* IVec3 + IVec3
VecAdd(a, b) == << a[1] + b[1], a[2] + b[2], a[3] + b[3] >>

\* the edge lengths the neighbor index table is built for
TableSizes == 1 .. (IF MaxSize > MaxScenarioSize THEN MaxSize ELSE MaxScenarioSize)

\* an update_neighbors that indexes the neighbor position as it is, unwrapped
NeighborIndexesOfUnwrapped(s, method, index) ==
    LET offsets == get_neighbors(method)
        pos == index_to_pos(s, index)
    IN [k \in 1 .. Len(offsets) |-> pos_to_index(s, VecAdd(pos, offsets[k]))]

\* Grid::update_neighbors, lines 69-73: for each offset of the neighborhood,
\* in order, the index of the wrapped neighbor position of cell index
NeighborIndexesOf(s, method, index) ==
    LET offsets == get_neighbors(method)
        pos == index_to_pos(s, index)
    IN [k \in 1 .. Len(offsets) |-> pos_to_index(s, wrap(s, VecAdd(pos, offsets[k])))]

\* NeighborIndexesOf, tabulated
NeighborIndexes ==
    [s \in TableSizes |->
        [method \in {"Moore", "VonNeumann"} |->
            [index \in 0 .. (s * s * s - 1) |-> NeighborIndexesOf(s, method, index)]]]

RECURSIVE UpdateNeighborsFrom(_, _, _, _)
\* the loop of Grid::update_neighbors over the neighbors[k..] of a cell
UpdateNeighborsFrom(c, neighbors, k, increment) ==
    IF k > Len(neighbors) THEN c
    ELSE LET neighbor_index == neighbors[k]
             n == c[neighbor_index].neighbors
             \* u8 += 1 or u8 -= 1, wrapping at the ends of the range
             m == IF increment THEN U8Inc(n) ELSE U8Dec(n)
         IN IF m \in 0 .. 255
            THEN UpdateNeighborsFrom([c EXCEPT ![neighbor_index].neighbors = m],
                                     neighbors, k + 1, increment)
            ELSE c

\* Grid::update_neighbors: the cells after the call
update_neighbors(c, s, r, index, increment) ==
    UpdateNeighborsFrom(c, NeighborIndexes[s][r.neighbor_method][index], 1, increment)

\* spawn_center_cluster: the index of the candidate drawn with offsets d
CandidateIndex(s, d) ==
    LET center == s \div 2
        pos == << center + d[1], center + d[2], center + d[3] >>
        wrapped_pos == wrap(s, pos)
    IN pos_to_index(s, wrapped_pos)

\* spawn_center_cluster: the indexes a candidate can land on with this radius
CandidateIndexes(s, rad) ==
    { CandidateIndex(s, <<dx, dy, dz>>) :
        dx \in -rad .. rad, dy \in -rad .. rad, dz \in -rad .. rad }

\* a spawn_center_cluster whose loop has no is_dead test
SpawnOneUnchecked(c, s, r, max_state, index) ==
    update_neighbors([c EXCEPT ![index].value = max_state], s, r, index, TRUE)

\* one iteration of the loop of Grid::spawn_center_cluster, the candidate
\* landing on index: the cells after it
SpawnOne(c, s, r, max_state, index) ==
    IF is_dead(c[index])
    THEN update_neighbors([c EXCEPT ![index].value = max_state], s, r, index, TRUE)
    ELSE c

\* CellColors::default, channels <<red, green, blue>>
CellColorsDefault == [birth_color |-> <<1, 0, 0>>, death_color |-> <<0, 1, 0>>]

\* the InstanceData of one live cell.  position is kept doubled
\* (2 * (pos - (size - 1) * 0.5)); color is kept as the numerators of the
\* channels over the denominator max_state (t = value / max_state)
InstanceOf(s, index, cell, colors, max_state) ==
    LET pos == index_to_pos(s, index)
        v == cell.value
        mix(k) == colors.death_color[k] * (max_state - v) + colors.birth_color[k] * v
    IN [position_x2 |-> << 2 * pos[1] - (s - 1), 2 * pos[2] - (s - 1), 2 * pos[3] - (s - 1) >>,
        scale |-> 1,
        color |-> [num |-> << mix(1), mix(2), mix(3), max_state >>, den |-> max_state]]

\* a build_instances that pushes an InstanceData for every cell, dead or not
build_instances_unfiltered(c, s, colors, max_state) ==
    [k \in 1 .. (s * s * s) |-> InstanceOf(s, k - 1, c[k - 1], colors, max_state)]

\* Grid::build_instances: the cells are visited in index order and one
\* InstanceData is pushed for each cell with value > 0
build_instances(c, s, colors, max_state) ==
    LET Live(index) == c[index].value > 0
        visited == SelectSeq([k \in 1 .. (s * s * s) |-> k - 1], Live)
    IN [k \in 1 .. Len(visited) |->
            InstanceOf(s, visited[k], c[visited[k]], colors, max_state)]

\* Grid::cell_count
cell_count(c) == Cardinality({i \in DOMAIN c : ~is_dead(c[i])})

----------------------------------------------------------------------------
(* grid.rs: simulate_step *)

\* a PHASE 1 that decays every cell that is not born, dead or not
Phase1ValueDecaysDead(cell, r) ==
    LET max_state == r.states
    IN IF is_dead(cell) /\ should_birth(r, cell.neighbors)
       THEN max_state
       ELSE IF cell.value < max_state \/ ~should_survive(r, cell.neighbors)
            THEN U8Dec(cell.value)
            ELSE cell.value

\* a PHASE 1 that asks the survival rule for every live cell, on its decay
\* trail or not
Phase1ValueTrailSurvives(cell, r) ==
    LET max_state == r.states
    IN IF is_dead(cell)
       THEN IF should_birth(r, cell.neighbors) THEN max_state ELSE cell.value
       ELSE IF ~should_survive(r, cell.neighbors)
            THEN U8Dec(cell.value)
            ELSE cell.value

\* PHASE 1, the body of the loop: the value of a cell after it.  The body
\* has the one cell that iter_mut() hands it, and nothing else of the grid
Phase1Value(cell, r) ==
    LET max_state == r.states
    IN IF is_dead(cell)
       THEN IF should_birth(r, cell.neighbors) THEN max_state ELSE cell.value
       ELSE IF cell.value < max_state \/ ~should_survive(r, cell.neighbors)
            THEN U8Dec(cell.value)
            ELSE cell.value

\* PHASE 1, the body of the loop: whether the cell's index is pushed to spawns
Phase1Spawns(cell, r) ==
    is_dead(cell) /\ should_birth(r, cell.neighbors)

\* a PHASE 1 that compares the value with max_state after the decrement
Phase1DiesAfterDecrement(cell, r) ==
    /\ ~is_dead(cell)
    /\ cell.value < r.states \/ ~should_survive(r, cell.neighbors)
    /\ U8Dec(cell.value) = r.states

\* PHASE 1, the body of the loop: whether the cell's index is pushed to deaths
Phase1Dies(cell, r) ==
    /\ ~is_dead(cell)
    /\ cell.value < r.states \/ ~should_survive(r, cell.neighbors)
    /\ cell.value = r.states

\* PHASE 1 of simulate_step: the cells are visited in index order; the cells,
\* spawns and deaths after the loop
Phase1(c, s, r) ==
    LET indexes == [k \in 1 .. (s * s * s) |-> k - 1]
        Spawned(index) == Phase1Spawns(c[index], r)
        Died(index) == Phase1Dies(c[index], r)
    IN [cells |-> [index \in DOMAIN c |->
                      [value |-> Phase1Value(c[index], r), neighbors |-> c[index].neighbors]],
        spawns |-> SelectSeq(indexes, Spawned),
        deaths |-> SelectSeq(indexes, Died)]

RECURSIVE UpdateAll(_, _, _, _, _, _, _)
\* for index in list[lo..hi] { grid.update_neighbors(&rule, *index, increment) }
\* in ascending order (the range is halved, the order is kept)
UpdateAll(c, s, r, list, lo, hi, increment) ==
    IF lo > hi THEN c
    ELSE IF lo = hi THEN update_neighbors(c, s, r, list[lo], increment)
    ELSE LET mid == (lo + hi) \div 2
             first == UpdateAll(c, s, r, list, lo, mid, increment)
         IN IF list[mid] \in DOMAIN first
            THEN UpdateAll(first, s, r, list, mid + 1, hi, increment)
            ELSE first

\* a PHASE 2 that applies the spawns and forgets the deaths
Phase2SpawnsOnly(c, s, r, spawns, deaths) ==
    UpdateAll(c, s, r, spawns, 1, Len(spawns), TRUE)

\* PHASE 2 of simulate_step: the spawns first, then the deaths
Phase2(c, s, r, spawns, deaths) ==
    LET spawned == UpdateAll(c, s, r, spawns, 1, Len(spawns), TRUE)
    IN IF DOMAIN spawned = DOMAIN c
       THEN UpdateAll(spawned, s, r, deaths, 1, Len(deaths), FALSE)
       ELSE spawned

RECURSIVE StepCellsInterleavedFrom(_, _, _, _)
\* a simulate_step with a single loop: each cell's neighbors are updated as
\* soon as the cell spawns or dies, before the next cell is evaluated
StepCellsInterleavedFrom(c, s, r, index) ==
    IF index >= s * s * s THEN c
    ELSE LET cell == c[index]
             valued == [c EXCEPT ![index].value = Phase1Value(cell, r)]
             updated == IF Phase1Spawns(cell, r) THEN update_neighbors(valued, s, r, index, TRUE)
                        ELSE IF Phase1Dies(cell, r) THEN update_neighbors(valued, s, r, index, FALSE)
                        ELSE valued
         IN IF DOMAIN updated = DOMAIN c
            THEN StepCellsInterleavedFrom(updated, s, r, index + 1)
            ELSE updated

StepCellsInterleaved(c, s, r) == StepCellsInterleavedFrom(c, s, r, 0)

RECURSIVE CheckedUpdateNeighborsFrom(_, _, _, _)
\* the loop of Grid::update_neighbors in a build with overflow checks (the
\* dev profile): += 1 on 255 and -= 1 on 0 panic.  [ok, cells]: whether the
\* loop ended without a panic, and the cells when it ended or panicked
CheckedUpdateNeighborsFrom(c, neighbors, k, increment) ==
    IF k > Len(neighbors) THEN [ok |-> TRUE, cells |-> c]
    ELSE LET neighbor_index == neighbors[k]
             n == c[neighbor_index].neighbors
         IN IF (increment /\ n = 255) \/ (~increment /\ n = 0)
            THEN [ok |-> FALSE, cells |-> c]
            ELSE CheckedUpdateNeighborsFrom(
                     [c EXCEPT ![neighbor_index].neighbors = IF increment THEN n + 1 ELSE n - 1],
                     neighbors, k + 1, increment)

RECURSIVE CheckedUpdateAll(_, _, _, _, _, _, _)
\* for index in list[lo..hi] { grid.update_neighbors(&rule, *index, increment) }
\* in a build with overflow checks
CheckedUpdateAll(c, s, r, list, lo, hi, increment) ==
    IF lo > hi THEN [ok |-> TRUE, cells |-> c]
    ELSE IF lo = hi
         THEN CheckedUpdateNeighborsFrom(
                  c, NeighborIndexes[s][r.neighbor_method][list[lo]], 1, increment)
    ELSE LET mid == (lo + hi) \div 2
             first == CheckedUpdateAll(c, s, r, list, lo, mid, increment)
         IN IF first.ok
            THEN CheckedUpdateAll(first.cells, s, r, list, mid + 1, hi, increment)
            ELSE first

\* PHASE 1 and PHASE 2 in a build with overflow checks (cell.value -= 1 of
\* PHASE 1 is applied to live cells only: it cannot panic)
CheckedStepCells(c, s, r) ==
    LET p1 == Phase1(c, s, r)
        spawned == CheckedUpdateAll(p1.cells, s, r, p1.spawns, 1, Len(p1.spawns), TRUE)
    IN IF spawned.ok
       THEN CheckedUpdateAll(spawned.cells, s, r, p1.deaths, 1, Len(p1.deaths), FALSE)
       ELSE spawned

\* the cells after PHASE 1 and PHASE 2
StepCells(c, s, r) ==
    LET p1 == Phase1(c, s, r)
    IN Phase2(p1.cells, s, r, p1.spawns, p1.deaths)

----------------------------------------------------------------------------
(* The host: Grid::new, spawn_center_cluster, then simulate_step each frame *)

NoRuleValue == [src |-> <<"none">>, bitmask |-> 0]
NoCall == [op |-> "none", arg |-> << >>, ret |-> << >>]

\* the rules the host may select: presets and custom rules, among them a
\* rule with a single live state and a degenerate rule with states = 0
Rules ==
    { rule_445,
      RuleFromRanges(2, 3, 1, 2, 1, "VonNeumann"),
      RuleNew(<< >>, <<0>>, 0, "Moore") }

\* the rules of the single-cell scenarios
ScenarioRules ==
    { rule_445, builder_2,
      RuleNew(<<0>>, << >>, 2, "Moore"),
      RuleNew(<<2>>, <<2>>, 2, "VonNeumann"),
      RuleNew(<<6>>, <<1>>, 2, "VonNeumann"),
      RuleNew(<<1>>, <<0>>, 1, "VonNeumann") }

\* Grid::new(size) for a size of sizes, under a rule of rules; nothing seeded
InitGrid(sizes, rules) ==
    /\ size \in sizes
    /\ rule \in rules
    /\ cells = GridNew(size)
    /\ pc = "new"
    /\ radius = 0
    /\ amount = 0
    /\ remaining = 0
    /\ since_update = 0
    /\ instances = << >>
    /\ stepped = FALSE
    /\ rv = NoRuleValue
    /\ call = NoCall

Init == InitGrid(1 .. MaxSize, Rules)

\* the host calls spawn_center_cluster(rule, rule.states, r, a)
SpawnBegin(radii, amounts) ==
    /\ pc = "new"
    /\ \E r \in radii, a \in amounts :
          /\ radius' = r
          /\ amount' = a
          /\ remaining' = a
          /\ pc' = (IF a = 0 THEN "seeded" ELSE "seed")
    /\ UNCHANGED <<size, cells, rule, since_update, instances, stepped, rv, call>>

\* one iteration of the loop of spawn_center_cluster
SpawnCandidate ==
    /\ pc = "seed"
    /\ remaining > 0
    /\ \E index \in CandidateIndexes(size, radius) :
          cells' = SpawnOne(cells, size, rule, rule.states, index)
    /\ remaining' = remaining - 1
    /\ pc' = (IF remaining = 1 THEN "seeded" ELSE "seed")
    /\ UNCHANGED <<size, rule, radius, amount, since_update, instances, stepped, rv, call>>

\* simulate_step, called less than UPDATE_INTERVAL after the last update:
\* it returns at once
SimulateStepThrottled ==
    /\ pc \in {"seeded", "run"}
    /\ \E dt \in 1 .. UPDATE_INTERVAL :
          /\ since_update + dt < UPDATE_INTERVAL
          /\ since_update' = since_update + dt
    /\ pc' = "run"
    /\ radius' = 0
    /\ amount' = 0
    /\ UNCHANGED <<size, cells, rule, remaining, instances, stepped, rv, call>>

\* a simulate_step that builds the instance data before PHASE 1, from the
\* lattice as the previous step left it
SimulateStepExecutedStale ==
    /\ pc \in {"seeded", "run"}
    /\ \E dt \in 1 .. UPDATE_INTERVAL : since_update + dt >= UPDATE_INTERVAL
    /\ since_update' = 0
    /\ cells' = StepCells(cells, size, rule)
    /\ instances' = build_instances(cells, size, CellColorsDefault, rule.states)
    /\ stepped' = TRUE
    /\ pc' = "run"
    /\ radius' = 0
    /\ amount' = 0
    /\ UNCHANGED <<size, rule, remaining, rv, call>>

\* simulate_step, executed: phases 1 to 4 and the performance profile
SimulateStepExecuted ==
    /\ pc \in {"seeded", "run"}
    /\ \E dt \in 1 .. UPDATE_INTERVAL : since_update + dt >= UPDATE_INTERVAL
    /\ since_update' = 0
    /\ cells' = StepCells(cells, size, rule)
    /\ instances' = build_instances(cells', size, CellColorsDefault, rule.states)
    /\ stepped' = TRUE
    /\ pc' = "run"
    /\ radius' = 0
    /\ amount' = 0
    /\ UNCHANGED <<size, rule, remaining, rv, call>>

\* simulate_step, executed in a build with overflow checks, panics on a
\* neighbor count that leaves the u8 range (a build without them wraps the
\* count and goes on: SimulateStepExecuted)
SimulateStepPanics ==
    /\ pc \in {"seeded", "run"}
    /\ \E dt \in 1 .. UPDATE_INTERVAL : since_update + dt >= UPDATE_INTERVAL
    /\ ~CheckedStepCells(cells, size, rule).ok
    /\ cells' = CheckedStepCells(cells, size, rule).cells
    /\ pc' = "panic"
    /\ radius' = 0
    /\ amount' = 0
    /\ UNCHANGED <<size, rule, remaining, since_update, instances, stepped, rv, call>>

Seed == SpawnBegin(0 .. MaxRadius, 0 .. MaxAmount)

Next ==
    \/ Seed
    \/ SpawnCandidate
    \/ SimulateStepThrottled
    \/ SimulateStepExecuted
    \/ SimulateStepPanics

Spec == Init /\ [][Next]_vars

\* The single-cell scenarios: a lattice of any edge up to MaxScenarioSize,
\* seeded with no cell or with one cell anywhere on the lattice
ScenarioInit == InitGrid(1 .. MaxScenarioSize, ScenarioRules)

ScenarioSeed == SpawnBegin({size \div 2}, {0, 1})

ScenarioNext ==
    \/ ScenarioSeed
    \/ SpawnCandidate
    \/ SimulateStepThrottled
    \/ SimulateStepExecuted

ScenarioSpec == ScenarioInit /\ [][ScenarioNext]_vars

----------------------------------------------------------------------------
(* The host from before Grid::new, which it may call with any size *)

\* the state of a host that has not seeded and not stepped
Idle(stage) ==
    /\ pc = stage
    /\ radius = 0
    /\ amount = 0
    /\ remaining = 0
    /\ since_update = 0
    /\ instances = << >>
    /\ stepped = FALSE

ConstructInit ==
    /\ size = 0
    /\ cells = << >>
    /\ rule \in Rules
    /\ Idle("start")
    /\ rv = NoRuleValue
    /\ call = NoCall

\* Grid::new(s) returns a Grid: total = (s * s * s) as usize cells.  There
\* is no test of s
GridNewReturns ==
    /\ pc = "start"
    /\ \E s \in (-MaxNegSize) .. MaxSize :
          /\ s * s * s >= 0
          /\ size' = s
          /\ cells' = GridNew(s)
    /\ pc' = "new"
    /\ UNCHANGED <<rule, radius, amount, remaining, since_update, instances, stepped, rv, call>>

\* Grid::new(s) panics: a negative s * s * s cast to usize is at least
\* 2^63, and vec! panics with a capacity overflow
GridNewPanics ==
    /\ pc = "start"
    /\ \E s \in (-MaxNegSize) .. MaxSize :
          /\ s * s * s < 0
          /\ size' = s
    /\ pc' = "panic"
    /\ UNCHANGED <<cells, rule, radius, amount, remaining, since_update, instances, stepped, rv, call>>

\* one iteration of the loop of spawn_center_cluster on a Grid with cells
SpawnCandidateOnCells == size # 0 /\ SpawnCandidate

\* the first iteration of the loop of spawn_center_cluster on the Grid of
\* size 0: wrap takes a remainder with divisor 0, which panics in every build
SpawnCandidatePanics ==
    /\ pc = "seed"
    /\ size = 0
    /\ pc' = "panic"
    /\ UNCHANGED <<size, cells, rule, radius, amount, remaining, since_update, instances,
                   stepped, rv, call>>

ConstructNext ==
    \/ GridNewReturns
    \/ GridNewPanics
    \/ Seed
    \/ SpawnCandidateOnCells
    \/ SpawnCandidatePanics
    \/ SimulateStepThrottled
    \/ SimulateStepExecuted
    \/ SimulateStepPanics

ConstructSpec == ConstructInit /\ [][ConstructNext]_vars

----------------------------------------------------------------------------
(* The coordinate functions of Grid, one call on a lattice of any edge *)

\* coordinates with every component in lo .. hi
Coords(lo, hi) == { <<x, y, z>> : x \in lo .. hi, y \in lo .. hi, z \in lo .. hi }

IndexInit ==
    /\ size \in 1 .. MaxScenarioSize
    /\ cells = GridNew(size)
    /\ rule = rule_445
    /\ Idle("index")
    /\ rv = NoRuleValue
    /\ call = NoCall

\* grid.pos_to_index(pos) for a position on the lattice
CallPosToIndex ==
    /\ call = NoCall
    /\ \E pos \in Coords(0, size - 1) :
          call' = [op |-> "pos_to_index", arg |-> pos, ret |-> <<pos_to_index(size, pos)>>]
    /\ UNCHANGED <<size, cells, rule, pc, radius, amount, remaining, since_update,
                   instances, stepped, rv>>

\* grid.index_to_pos(index) for an index of the lattice
CallIndexToPos ==
    /\ call = NoCall
    /\ \E index \in 0 .. (size * size * size - 1) :
          call' = [op |-> "index_to_pos", arg |-> <<index>>, ret |-> index_to_pos(size, index)]
    /\ UNCHANGED <<size, cells, rule, pc, radius, amount, remaining, since_update,
                   instances, stepped, rv>>

\* grid.wrap(pos) for any position, on or off the lattice
CallWrap ==
    /\ call = NoCall
    /\ \E pos \in Coords(-MaxCoord, MaxCoord) :
          call' = [op |-> "wrap", arg |-> pos, ret |-> wrap(size, pos)]
    /\ UNCHANGED <<size, cells, rule, pc, radius, amount, remaining, since_update,
                   instances, stepped, rv>>

\* grid.update_neighbors(rule, index, _) for a cell of the lattice and a
\* rule of either neighborhood: the indexes it accesses self.cells with
CallUpdateNeighbors ==
    /\ call = NoCall
    /\ \E index \in 0 .. (size * size * size - 1), method \in {"Moore", "VonNeumann"} :
          call' = [op |-> "update_neighbors", arg |-> <<index, method>>,
                   ret |-> NeighborIndexesOf(size, method, index)]
    /\ UNCHANGED <<size, cells, rule, pc, radius, amount, remaining, since_update,
                   instances, stepped, rv>>

\* one iteration of the loop of grid.spawn_center_cluster, the three draws of
\* random_range(-radius..=radius) being d: the index it accesses self.cells with
CallSpawnCandidate ==
    /\ call = NoCall
    /\ \E d \in Coords(-MaxCoord, MaxCoord) :
          call' = [op |-> "spawn_center_cluster", arg |-> d,
                   ret |-> <<CandidateIndex(size, d)>>]
    /\ UNCHANGED <<size, cells, rule, pc, radius, amount, remaining, since_update,
                   instances, stepped, rv>>

IndexNext ==
    \/ CallPosToIndex
    \/ CallIndexToPos
    \/ CallWrap
    \/ CallUpdateNeighbors
    \/ CallSpawnCandidate

IndexSpec == IndexInit /\ [][IndexNext]_vars

----------------------------------------------------------------------------
(* RuleValue: a constructor, any number of or, then one matches *)

\* the u8 counts the calls are given: the low counts, the counts around the
\* width of the bitmask, and the largest u8
Counts == (0 .. MaxCount) \cup {25, 26, 27, 28, 255}

RECURSIVE CountLists(_)
\* the lists of at most n counts
CountLists(n) ==
    IF n = 0 THEN { << >> }
    ELSE LET shorter == CountLists(n - 1)
         IN shorter \cup { Append(l, c) : l \in {x \in shorter : Len(x) = n - 1}, c \in Counts }

RuleValueInit ==
    /\ size = 1
    /\ cells = GridNew(size)
    /\ rule = rule_445
    /\ Idle("rule")
    /\ rv = NoRuleValue
    /\ call = NoCall

\* rv = RuleValue::new(counts)
CallRuleValueNew ==
    /\ rv = NoRuleValue
    /\ \E counts \in CountLists(MaxLen) :
          rv' = [src |-> <<"new", counts>>, bitmask |-> RuleValueNew(counts)]
    /\ call' = NoCall
    /\ UNCHANGED <<size, cells, rule, pc, radius, amount, remaining, since_update,
                   instances, stepped>>

\* rv = RuleValue::from_range(min, max)
CallFromRange ==
    /\ rv = NoRuleValue
    /\ \E min \in Counts, max \in Counts :
          rv' = [src |-> <<"from_range", min, max>>, bitmask |-> from_range(min, max)]
    /\ call' = NoCall
    /\ UNCHANGED <<size, cells, rule, pc, radius, amount, remaining, since_update,
                   instances, stepped>>

\* rv = rv.or(RuleValue::new(&[count]))
CallOr ==
    /\ rv # NoRuleValue
    /\ call = NoCall
    /\ \E count \in Counts :
          rv' = [src |-> <<"or">>, bitmask |-> or(rv.bitmask, RuleValueNew(<<count>>))]
    /\ call' = NoCall
    /\ UNCHANGED <<size, cells, rule, pc, radius, amount, remaining, since_update,
                   instances, stepped>>

\* rv.matches(count)
CallMatches ==
    /\ rv # NoRuleValue
    /\ call = NoCall
    /\ \E count \in Counts :
          call' = [op |-> "matches", arg |-> <<count>>, ret |-> <<matches(rv.bitmask, count)>>]
    /\ UNCHANGED <<size, cells, rule, pc, radius, amount, remaining, since_update,
                   instances, stepped, rv>>

RuleValueNext ==
    \/ CallRuleValueNew
    \/ CallFromRange
    \/ CallOr
    \/ CallMatches

RuleValueSpec == RuleValueInit /\ [][RuleValueNext]_vars

\* the cells that the offsets of a neighborhood lead to from cell index on
\* the torus of edge s (mathematical modulo), one entry per offset
TorusNeighborsOf(s, method, index) ==
    LET offsets == get_neighbors(method)
        x == index % s
        y == (index \div s) % s
        z == index \div (s * s)
    IN [k \in 1 .. Len(offsets) |->
            ((x + offsets[k][1]) % s) + ((y + offsets[k][2]) % s) * s
                + ((z + offsets[k][3]) % s) * s * s]

\* TorusNeighborsOf, tabulated
TorusNeighbors ==
    [s \in TableSizes |->
        [method \in {"Moore", "VonNeumann"} |->
            [index \in 0 .. (s * s * s - 1) |-> TorusNeighborsOf(s, method, index)]]]

\* the neighbor count of cell index recomputed from scratch: the offsets of
\* the rule's neighborhood that lead (with wrap) to a cell at max_state
Recount(c, s, r, max_state, index) ==
    LET nb == TorusNeighbors[s][r.neighbor_method][index]
    IN Cardinality({k \in DOMAIN nb : c[nb[k]].value = max_state})

\* every cached neighbor count equals the recount of the neighbors at max_state
Consistent(c, s, r, max_state) ==
    \A i \in DOMAIN c : c[i].neighbors = Recount(c, s, r, max_state, i)

\* a step of the model is an executed simulate_step
ExecutedStep == pc \in {"seeded", "run"} /\ pc' = "run" /\ since_update' = 0

\* a step of the model is one iteration of the loop of spawn_center_cluster
CandidateStep == pc = "seed" /\ remaining' = remaining - 1

----------------------------------------------------------------------------
(* C1 *)

NeighborsConsistentLiveRule ==
    rule.states >= 1 => Consistent(cells, size, rule, rule.states)

\* C1 witness: steps have run (a cell is on its decay trail, which only
\* phase 1 produces) and cells at max_state with counted neighbors remain
NeighborsConsistentWitness ==
    /\ stepped
    /\ rule.states >= 2
    /\ \E i \in DOMAIN cells : cells[i].value \in 1 .. (rule.states - 1)
    /\ \E i \in DOMAIN cells : cells[i].value = rule.states /\ cells[i].neighbors > 0

----------------------------------------------------------------------------
(* C2 *)

\* C2 (as stated): for any max_state, radius and amount, every iteration of
\* the loop of spawn_center_cluster leaves every cached neighbors equal to
\* the recount of the neighbors at max_state, and it either changes no cell
\* at all or gives max_state to one dead cell
SeedingStepConsistentAnyMaxState ==
    [][ CandidateStep =>
            /\ Consistent(cells', size, rule, rule.states)
            /\ \/ cells' = cells
               \/ \E i \in DOMAIN cells :
                     /\ is_dead(cells[i])
                     /\ ~is_dead(cells'[i])
                     /\ \A j \in DOMAIN cells \ {i} : cells'[j].value = cells[j].value
      ]_vars

\* C2 (amended): for max_state >= 1, every iteration of the seeding loop
\* leaves the neighbor counts equal to the recount, and it either changes no
\* cell at all (the candidate landed on a live cell) or gives max_state to
\* one cell that was dead and changes no other value
SeedingStepConsistent ==
    [][ (CandidateStep /\ rule.states >= 1) =>
            /\ Consistent(cells', size, rule, rule.states)
            /\ \/ cells' = cells
               \/ \E i \in DOMAIN cells :
                     /\ is_dead(cells[i])
                     /\ cells'[i].value = rule.states
                     /\ \A j \in DOMAIN cells \ {i} : cells'[j].value = cells[j].value
      ]_vars

\* C2 witness: seeding is over and more candidates were drawn than cells are
\* alive, so a candidate landed on a cell that was already alive
SeedingRepeatedHitWitness ==
    /\ pc = "seeded"
    /\ rule.states >= 1
    /\ amount >= 2
    /\ cell_count(cells) < amount
    /\ \E i \in DOMAIN cells : cells[i].neighbors > 0

----------------------------------------------------------------------------
(* C3 *)

\* the next value of a cell as C3 states it, from the cell's own value v and
\* neighbor count n before the step
F(r, v, n) ==
    IF v = 0 THEN (IF matches(r.birth, n) THEN r.states ELSE 0)
    ELSE IF v = r.states THEN (IF matches(r.survival, n) THEN r.states ELSE r.states - 1)
    ELSE v - 1

\* C3: an executed simulate_step gives every cell the value F(v, n) of its
\* own value and cached neighbor count before the step
StepIsCellwise ==
    [][ ExecutedStep =>
            \A i \in DOMAIN cells :
                cells'[i].value = F(rule, cells[i].value, cells[i].neighbors)
      ]_vars

\* C3 witness: a step has run in which a cell was born next to a cell that
\* left max_state: a cell at max_state whose count is below the number of
\* its neighbors at max_state - 1 or above
StepIsCellwiseWitness ==
    /\ stepped
    /\ rule.states >= 2
    /\ \E i \in DOMAIN cells :
          /\ cells[i].value = rule.states
          /\ \E k \in DOMAIN TorusNeighbors[size][rule.neighbor_method][i] :
                cells[TorusNeighbors[size][rule.neighbor_method][i][k]].value = rule.states - 1

----------------------------------------------------------------------------
(* C4 *)

\* cell i is at max_state, every other cell is dead, the counts are consistent
Isolated(i) ==
    /\ cells[i].value = rule.states
    /\ \A j \in DOMAIN cells \ {i} : is_dead(cells[j])
    /\ Consistent(cells, size, rule, rule.states)

\* after the step the cell is at max_state - 1 and the count of the cell
\* behind each of its neighbor offsets is exactly 1 lower than before
DecayedAlone(i) ==
    /\ cells'[i].value = rule.states - 1
    /\ \A k \in DOMAIN NeighborIndexes[size][rule.neighbor_method][i] :
          LET nb == NeighborIndexes[size][rule.neighbor_method][i][k]
          IN cells'[nb].neighbors = cells[nb].neighbors - 1

\* C4 (as stated): on a lattice with exactly one cell at max_state and all
\* other cells dead, one step under any rule whose survival set excludes 0
\* leaves that cell at max_state - 1 and each of its 26 or 6 neighbors with
\* a neighbor count exactly 1 lower
IsolatedCellDecays ==
    [][ (ExecutedStep /\ ~matches(rule.survival, 0)) =>
            \A i \in DOMAIN cells : Isolated(i) => DecayedAlone(i)
      ]_vars

\* C4 (amended): the same on a lattice of edge 3 or more, under a rule whose
\* survival set excludes 0 and whose birth set excludes 0 and 1
IsolatedCellDecaysOnWideLattice ==
    [][ (/\ ExecutedStep
         /\ size >= 3
         /\ ~matches(rule.survival, 0)
         /\ ~matches(rule.birth, 0)
         /\ ~matches(rule.birth, 1)) =>
            \A i \in DOMAIN cells : Isolated(i) => DecayedAlone(i)
      ]_vars

\* C4 witness: the step has run on such a lattice: one cell is at
\* max_state - 1, every other cell is dead and every count is back to 0
IsolatedCellDecaysWitness ==
    /\ stepped
    /\ size >= 3
    /\ rule.states >= 2
    /\ ~matches(rule.survival, 0) /\ ~matches(rule.birth, 0) /\ ~matches(rule.birth, 1)
    /\ \E i \in DOMAIN cells :
          /\ cells[i].value = rule.states - 1
          /\ \A j \in DOMAIN cells \ {i} : is_dead(cells[j])
    /\ \A j \in DOMAIN cells : cells[j].neighbors = 0

----------------------------------------------------------------------------
(* C5 *)

AllDead(c) == \A i \in DOMAIN c : c[i].value = 0 /\ c[i].neighbors = 0

\* C5: on a 5x5x5 lattice created by Grid::new with no seeding, under
\* rule_445, after any number of steps every cell is still dead and every
\* neighbor count is still 0: the lattice starts so, and every step other
\* than an iteration of the seeding loop keeps it so and shows no instance
EmptyLatticeStaysDead ==
    /\ (size = 5 /\ rule = rule_445) => AllDead(cells)
    /\ [][ (size = 5 /\ rule = rule_445 /\ pc # "seed" /\ AllDead(cells)) =>
              (AllDead(cells') /\ instances' = << >>)
         ]_vars

\* C5 witness: steps have run on the 5x5x5 lattice under rule_445 and it is
\* empty
EmptyLatticeStaysDeadWitness ==
    /\ size = 5
    /\ rule = rule_445
    /\ pc = "run"
    /\ stepped
    /\ AllDead(cells)

----------------------------------------------------------------------------
(* C6 *)

\* C6: for a lattice of size S >= 1, index_to_pos(pos_to_index(c)) = c for
\* every coordinate c with all components in [0, S), pos_to_index(
\* index_to_pos(i)) = i for every index i in [0, S^3), and each function
\* lands in the other's domain, so x + y*S + z*S^2 is a bijection
IndexRoundTrips ==
    /\ call.op = "pos_to_index" =>
          /\ call.ret[1] \in 0 .. (size * size * size - 1)
          /\ index_to_pos(size, call.ret[1]) = call.arg
    /\ call.op = "index_to_pos" =>
          /\ call.ret \in Coords(0, size - 1)
          /\ pos_to_index(size, call.ret) = call.arg[1]

\* C6 witness: pos_to_index was called with a position off every axis
\* origin, with three different components
IndexRoundTripsWitness ==
    /\ call.op = "pos_to_index"
    /\ call.arg[1] > call.arg[2]
    /\ call.arg[2] > call.arg[3]
    /\ call.arg[3] > 0

----------------------------------------------------------------------------
(* C7 *)

\* C7: for a lattice of size S >= 1 and any integer coordinate, wrap returns
\* on each axis the value in [0, S) congruent to the input modulo S; in
\* particular wrap((-1,0,0)) = (S-1,0,0) and wrap((S,0,0)) = (0,0,0)
WrapIsModulo ==
    call.op = "wrap" =>
        /\ \A a \in 1 .. 3 :
              /\ call.ret[a] \in 0 .. (size - 1)
              /\ (call.ret[a] - call.arg[a]) % size = 0
        /\ call.arg = <<-1, 0, 0>> => call.ret = <<size - 1, 0, 0>>
        /\ call.arg = <<size, 0, 0>> => call.ret = <<0, 0, 0>>

\* C7 witness: wrap was called with a coordinate below 0 on one axis, above
\* the lattice on another and on the lattice on the third
WrapIsModuloWitness ==
    /\ call.op = "wrap"
    /\ size >= 2
    /\ call.arg[1] < -size
    /\ call.arg[2] > size
    /\ call.arg[3] \in 1 .. (size - 1)

----------------------------------------------------------------------------
(* C8 *)

\* C8: from_range(min, max).matches(count) is true iff
\* min <= count <= min(max, 26), and matches(count) is false for every
\* count >= 27 on every RuleValue however it was constructed
FromRangeMatches ==
    call.op = "matches" =>
        LET count == call.arg[1]
        IN /\ rv.src[1] = "from_range" =>
                (call.ret[1] <=> (rv.src[2] <= count /\ count <= rv.src[3] /\ count <= 26))
           /\ count >= 27 => call.ret[1] = FALSE

\* C8 witness: from_range(4, 6).matches(6) was called, and so was matches
\* on a range that reaches above 26
FromRangeMatchesWitness ==
    /\ call.op = "matches"
    /\ \/ rv.src = <<"from_range", 4, 6>> /\ call.arg = <<6>> /\ call.ret = <<TRUE>>
       \/ rv.src = <<"from_range", 25, 255>> /\ call.arg = <<27>>

----------------------------------------------------------------------------
(* C9 *)

\* C9: RuleValue::new(counts).matches(c) is true iff c < 27 and c occurs in
\* counts: duplicates have no extra effect and listed counts >= 27 are
\* ignored
NewMatchesListed ==
    (call.op = "matches" /\ rv.src[1] = "new") =>
        LET counts == rv.src[2]
            c == call.arg[1]
        IN call.ret[1] <=> (c < 27 /\ \E k \in DOMAIN counts : counts[k] = c)

\* C9 witness: matches was called on a RuleValue made from a list with a
\* duplicate, and on one made from a list with a count >= 27
NewMatchesListedWitness ==
    /\ call.op = "matches"
    /\ rv.src[1] = "new"
    /\ Len(rv.src[2]) = 2
    /\ \/ rv.src[2][1] = rv.src[2][2] /\ call.arg[1] = rv.src[2][1] /\ call.ret = <<TRUE>>
       \/ rv.src[2][1] >= 27 /\ rv.src[2][2] < 27 /\ call.arg[1] = rv.src[2][2]

----------------------------------------------------------------------------
(* C11 *)

\* the flat index of the cell whose centered position a record carries
RecordIndex(record) ==
    LET coord(a) == (record.position_x2[a] + (size - 1)) \div 2
    IN coord(1) + coord(2) * size + coord(3) * size * size

\* C11: the instance list shown after a step holds exactly one record per
\* cell with value > 0 and none for a dead cell (its length is cell_count),
\* in ascending flat-index order; each record's position is the cell's
\* coordinate minus (size - 1) / 2 on every axis and its scale is 1
InstancesAreLiveCells ==
    stepped =>
        /\ Len(instances) = cell_count(cells)
        /\ \A k \in DOMAIN instances :
              /\ instances[k].scale = 1
              /\ \A a \in 1 .. 3 :
                    /\ (instances[k].position_x2[a] + (size - 1)) % 2 = 0
                    /\ (instances[k].position_x2[a] + (size - 1)) \div 2 \in 0 .. (size - 1)
              /\ cells[RecordIndex(instances[k])].value > 0
              /\ k > 1 => RecordIndex(instances[k - 1]) < RecordIndex(instances[k])

\* C11 witness: a step has run and left live cells, among them one on its
\* decay trail, next to dead cells
InstancesAreLiveCellsWitness ==
    /\ stepped
    /\ Len(instances) >= 2
    /\ \E i \in DOMAIN cells : cells[i].value = 0
    /\ \E i \in DOMAIN cells : cells[i].value \in 1 .. (rule.states - 1)

----------------------------------------------------------------------------
(* C12 *)

\* the birth and survival masks match no count, or states = 0
Degenerate(r) == r.states = 0 \/ (r.birth = 0 /\ r.survival = 0)

\* C12 (as stated): under a degenerate rule stepping is never an error: no
\* step ends in an arithmetic overflow of a neighbor count
DegenerateRuleNeverFails ==
    Degenerate(rule) => pc # "panic"

----------------------------------------------------------------------------
(* C13 *)

\* C13 (as stated): Grid::new(size) fails for every size <= 0: once Grid::new
\* has been called with a non-positive size the process has panicked, and no
\* Grid of that size is in use
GridNewRejectsNonPositive ==
    (pc # "start" /\ size <= 0) => pc = "panic"

----------------------------------------------------------------------------
(* C14 *)

\* C14: after Grid::new, after every iteration of spawn_center_cluster and
\* after any number of steps, every cell's value lies in [0, max_state]
ValuesInRange ==
    \A i \in DOMAIN cells : cells[i].value \in 0 .. rule.states

\* C14 witness: steps have run and left a cell at max_state, a cell on its
\* decay trail and a dead cell
ValuesInRangeWitness ==
    /\ stepped
    /\ rule.states >= 2
    /\ \E i \in DOMAIN cells : cells[i].value = rule.states
    /\ \E i \in DOMAIN cells : cells[i].value \in 1 .. (rule.states - 1)
    /\ \E i \in DOMAIN cells : cells[i].value = 0

----------------------------------------------------------------------------
(* C15 *)

\* C15 (as stated): every cell's cached neighbor count stays within [0, 26]
\* at every point of execution: after Grid::new, after every iteration of
\* the seeding loop and after every step
NeighborCountsInRange ==
    \A i \in DOMAIN cells : cells[i].neighbors \in 0 .. 26

----------------------------------------------------------------------------
(* C16 *)

\* C16: across every executed step a living cell below max_state decays by
\* exactly one whatever its neighbor count (so it reaches 0 after as many
\* steps as its value), and a cell's value increases only when the cell was
\* dead before the step and is born to max_state
TrailDecaysByOne ==
    [][ ExecutedStep =>
            \A i \in DOMAIN cells :
                /\ (0 < cells[i].value /\ cells[i].value < rule.states) =>
                        cells'[i].value = cells[i].value - 1
                /\ cells'[i].value > cells[i].value =>
                        (cells[i].value = 0 /\ cells'[i].value = rule.states)
      ]_vars

\* C16 witness: after a step a cell is on its decay trail (alive, below
\* max_state) with a neighbor count that matches the survival rule
TrailDecaysByOneWitness ==
    /\ stepped
    /\ \E i \in DOMAIN cells :
          /\ cells[i].value \in 1 .. (rule.states - 1)
          /\ should_survive(rule, cells[i].neighbors)

----------------------------------------------------------------------------
(* C17 *)

\* C17: for a lattice of size >= 1 every flat index that update_neighbors
\* and spawn_center_cluster access the cell array with is the index of a
\* coordinate on the lattice and lies in [0, size^3), for every cell (faces,
\* edges and corners included) and both neighborhoods
AccessInBounds ==
    /\ call.op = "update_neighbors" =>
          \A k \in DOMAIN call.ret :
              /\ call.ret[k] \in 0 .. (size * size * size - 1)
              /\ call.ret[k] \in DOMAIN GridNew(size)
              /\ index_to_pos(size, call.ret[k]) \in Coords(0, size - 1)
    /\ call.op = "spawn_center_cluster" =>
          /\ call.ret[1] \in 0 .. (size * size * size - 1)
          /\ call.ret[1] \in DOMAIN GridNew(size)
          /\ index_to_pos(size, call.ret[1]) \in Coords(0, size - 1)

\* C17 witness: update_neighbors was called on the far corner of a lattice
\* of edge 3 or more with the Moore neighborhood, so that neighbors lie
\* across every face
AccessInBoundsWitness ==
    /\ call.op = "update_neighbors"
    /\ size >= 3
    /\ call.arg[2] = "Moore"
    /\ index_to_pos(size, call.arg[1]) = << size - 1, size - 1, size - 1 >>
    /\ Len(call.ret) = 26

----------------------------------------------------------------------------
(* main.rs: the step wired into the entry point *)

\* setup: let size = 50, the edge of the lattice of the entry point, scaled
\* down
MainSize == 3

\* simulate_step of main.rs: the interval 0.5 s, in ticks of 250 ms
MAIN_UPDATE_INTERVAL == 2

\* setup: vec![vec![vec![0; size]; size]; size], a cell being grid[x][y][z]
MainGridNew(s) == [pos \in Coords(0, s - 1) |-> 0]

\* count_neighbors of main.rs; size is grid.len()
count_neighbors(grid, s, x, y, z) ==
    Cardinality({ d \in Coords(-1, 1) :
        /\ ~(d[1] = 0 /\ d[2] = 0 /\ d[3] = 0)
        /\ LET nx == x + d[1]
               ny == y + d[2]
               nz == z + d[3]
           IN /\ nx >= 0 /\ ny >= 0 /\ nz >= 0
              /\ nx < s /\ ny < s /\ nz < s
              /\ grid[<<nx, ny, nz>>] >= 1 })

\* simulate_step of main.rs, the body of the loop: new_grid[x][y][z]
MainNewValue(current, neighbors, max_state) ==
    IF current = 0
    THEN IF neighbors = 4 THEN max_state ELSE 0
    ELSE IF current = 1
         THEN IF neighbors = 4 THEN max_state ELSE 0
         ELSE current - 1

\* simulate_step of main.rs: new_grid after the loops
MainStepCells(grid, s, max_state) ==
    [pos \in Coords(0, s - 1) |->
        MainNewValue(grid[pos], count_neighbors(grid, s, pos[1], pos[2], pos[3]), max_state)]

\* setup and simulate_step of main.rs: the instance data, one InstanceData
\* for each cell with state > 0, the cells visited with x outermost and z
\* innermost; birth_color is srgb(0.67, 1.0, 1.0) and death_color
\* srgb(0.1, 0.1, 0.1), in hundredths
MainInstances(grid, s, max_state) ==
    LET PosAt(i) == << i \div (s * s), (i \div s) % s, i % s >>
        Live(i) == grid[PosAt(i)] > 0
        visited == SelectSeq([k \in 1 .. (s * s * s) |-> k - 1], Live)
        mix(death, birth, v) == death * (max_state - v) + birth * v
    IN [k \in 1 .. Len(visited) |->
            LET pos == PosAt(visited[k])
                state == grid[pos]
            IN [position_x2 |-> << 2 * pos[1] - (s - 1), 2 * pos[2] - (s - 1),
                                   2 * pos[3] - (s - 1) >>,
                scale |-> 1,
                color |-> [num |-> << mix(10, 67, state), mix(10, 100, state),
                                      mix(10, 100, state), 100 * max_state >>,
                           den |-> 100 * max_state]]]

\* the entry point before setup: rule 445 is written into the step, and
\* max_state is 5
MainInit ==
    /\ size = MainSize
    /\ cells = MainGridNew(size)
    /\ rule = rule_445
    /\ Idle("setup")
    /\ rv = NoRuleValue
    /\ call = NoCall

\* setup, up to the seeding loop: radius and amount are literals of setup,
\* scaled down
MainSetupBegin ==
    /\ pc = "setup"
    /\ \E r \in 0 .. MaxRadius, a \in 1 .. MaxAmount :
          /\ radius' = r
          /\ amount' = a
          /\ remaining' = a
    /\ pc' = "seed"
    /\ UNCHANGED <<size, cells, rule, since_update, instances, stepped, rv, call>>

\* setup, one iteration of the seeding loop: a candidate off the lattice is
\* skipped; after the last iteration setup builds the instance data and
\* inserts the Grid
MainSetupCandidate ==
    /\ pc = "seed"
    /\ remaining > 0
    /\ \E d \in Coords(-radius, radius) :
          LET center == size \div 2
              pos == << center + d[1], center + d[2], center + d[3] >>
          IN cells' = IF pos \in Coords(0, size - 1)
                      THEN [cells EXCEPT ![pos] = rule.states]
                      ELSE cells
    /\ remaining' = remaining - 1
    /\ pc' = (IF remaining = 1 THEN "seeded" ELSE "seed")
    /\ instances' = (IF remaining = 1
                     THEN MainInstances(cells', size, rule.states)
                     ELSE instances)
    /\ UNCHANGED <<size, rule, radius, amount, since_update, stepped, rv, call>>

\* simulate_step of main.rs, called less than 0.5 s after the last update
MainSimulateStepThrottled ==
    /\ pc \in {"seeded", "run"}
    /\ \E dt \in 1 .. MAIN_UPDATE_INTERVAL :
          /\ since_update + dt < MAIN_UPDATE_INTERVAL
          /\ since_update' = since_update + dt
    /\ pc' = "run"
    /\ radius' = 0
    /\ amount' = 0
    /\ UNCHANGED <<size, cells, rule, remaining, instances, stepped, rv, call>>

\* simulate_step of main.rs, executed; call keeps the grid the step read and
\* the value count_neighbors returned for each cell
MainSimulateStepExecuted ==
    /\ pc \in {"seeded", "run"}
    /\ \E dt \in 1 .. MAIN_UPDATE_INTERVAL : since_update + dt >= MAIN_UPDATE_INTERVAL
    /\ since_update' = 0
    /\ cells' = MainStepCells(cells, size, rule.states)
    /\ instances' = MainInstances(cells', size, rule.states)
    /\ call' = [op |-> "simulate_step", arg |-> cells,
                ret |-> [pos \in Coords(0, size - 1) |->
                            count_neighbors(cells, size, pos[1], pos[2], pos[3])]]
    /\ stepped' = TRUE
    /\ pc' = "run"
    /\ radius' = 0
    /\ amount' = 0
    /\ UNCHANGED <<size, rule, remaining, rv>>

MainNext ==
    \/ MainSetupBegin
    \/ MainSetupCandidate
    \/ MainSimulateStepThrottled
    \/ MainSimulateStepExecuted

MainSpec == MainInit /\ [][MainNext]_vars

----------------------------------------------------------------------------
(* C18 *)

\* the living cells among the 26 Moore neighbors of pos on the torus
TorusCount(grid, s, pos) ==
    Cardinality({ d \in Coords(-1, 1) :
        /\ d # <<0, 0, 0>>
        /\ grid[<< (pos[1] + d[1] + s) % s, (pos[2] + d[2] + s) % s,
                   (pos[3] + d[3] + s) % s >>] >= 1 })

\* C18 (as stated): the step of main.rs treats the lattice as toroidal: the
\* neighbor count it computes for a cell, on the boundary or not, counts the
\* living cells of the full 26-cell neighborhood, those on the opposite face
\* included
MainStepIsToroidal ==
    call.op = "simulate_step" =>
        \A pos \in Coords(0, size - 1) :
            call.ret[pos] = TorusCount(call.arg, size, pos)

----------------------------------------------------------------------------
(* C19 *)

\* C19 (as stated): Rule.states is the number of states: under a rule with
\* states = N >= 1 the distinct values a cell takes over a run, here the value
\* Grid::new gave it and the value it has now, number at most N
StatesCountsValues ==
    rule.states >= 1 =>
        \A i \in DOMAIN cells :
            Cardinality({GridNew(size)[i].value, cells[i].value}) <= rule.states

----------------------------------------------------------------------------
(* C20 *)

\* C20 (as stated): the core step embeds no wall-clock timing: every
\* invocation of simulate_step that returns advances the lattice by exactly
\* one generation, whatever time has elapsed since the previous invocation
EveryInvocationSteps ==
    [][ (pc \in {"seeded", "run"} /\ pc' = "run") =>
            cells' = StepCells(cells, size, rule)
      ]_vars

----------------------------------------------------------------------------
(* C21 *)

----------------------------------------------------------------------------
(* C22 *)

\* the offsets a table lists
Listed(table) == { table[k] : k \in DOMAIN table }

\* the number of components of an offset that are not 0
NonZero(d) == Cardinality({a \in 1 .. 3 : d[a] # 0})

\* C22: the offset table update_neighbors walks is well-formed: its entries
\* are distinct; the Moore table lists exactly the 26 offsets of {-1,0,1}^3
\* other than (0,0,0), the von Neumann table exactly the 6 offsets with one
\* component +-1 and the others 0; with d it lists -d, so that the cell is a
\* neighbor of each of its neighbors; and max_neighbors() is the length of
\* the table of get_neighbors()
OffsetTablesWellFormed ==
    call.op = "update_neighbors" =>
        LET method == call.arg[2]
            table == get_neighbors(method)
        IN /\ Cardinality(Listed(table)) = Len(table)
           /\ method = "Moore" =>
                 /\ Len(table) = 26
                 /\ Listed(table) = Coords(-1, 1) \ {<<0, 0, 0>>}
           /\ method = "VonNeumann" =>
                 /\ Len(table) = 6
                 /\ Listed(table) = {d \in Coords(-1, 1) : NonZero(d) = 1}
           /\ \A d \in Listed(table) : << -d[1], -d[2], -d[3] >> \in Listed(table)
           /\ max_neighbors(method) = Len(table)
           /\ Len(call.ret) = max_neighbors(method)
           /\ \A k \in DOMAIN call.ret :
                 \E j \in 1 .. Len(table) :
                     NeighborIndexesOf(size, method, call.ret[k])[j] = call.arg[1]

\* C22 witness: update_neighbors walked the von Neumann table from an
\* interior cell of a lattice of edge 3 or more, reaching 6 different cells
OffsetTablesWellFormedWitness ==
    /\ call.op = "update_neighbors"
    /\ call.arg[2] = "VonNeumann"
    /\ size >= 3
    /\ Cardinality({call.ret[k] : k \in DOMAIN call.ret}) = 6

====
